---------------------------- MODULE Spec2Model ----------------------------
(***************************************************************************)
(* NavigatorService (src/src/services/NavigatorService.js): the checkout   *)
(* step navigator of plenty-cms-library.                                   *)
(*                                                                         *)
(* The closure variables of the service (navigation, container, current,   *)
(* the two buttons, interceptors) and the part of the document they act on *)
(* (marker classes, panel visibility, the disabled attribute of the two    *)
(* buttons, window.location.hash and the queue of hashchange events) are   *)
(* the state.  Every public function and every event handler is one        *)
(* action; goTo, next, previous, goToID and resolveInterceptors are        *)
(* operators on a record of the state, so that a handler that calls        *)
(* another one is a single step, as it is on the single-threaded event     *)
(* loop.                                                                   *)
(*                                                                         *)
(* Strings are tuples of one-character strings ("#b" is <<"#","b">>), so   *)
(* that String.replace and the location.hash getter/setter are computed.   *)
(* fillNavigation only writes padding and width styles, which nothing      *)
(* else reads; it is left out.  Interceptors are callbacks that return a   *)
(* value and do not call back into the service.                            *)
(***************************************************************************)
EXTENDS Integers, Sequences, FiniteSets, TLC

VARIABLES
    domMarkers,     \* number of <li> under [data-plenty-checkout="navigation"]
    domPanels,      \* number of <div> under [data-plenty-checkout="container"]
    navigation,     \* var navigation: how many markers the jQuery set holds
    container,      \* var container: the ids of the panels the jQuery set holds
    buttonsBound,   \* buttonPrev / buttonNext hold the document's buttons
    current,        \* var current
    interceptors,   \* var interceptors: [beforeChange, afterChange]
    cls,            \* CSS classes of every marker of the document
    shown,          \* visibility of every panel of the document
    prevDisabled,   \* "disabled" attribute of the previous button
    nextDisabled,   \* "disabled" attribute of the next button
    hash,           \* window.location.hash ("" or "#" followed by the fragment)
    pending,        \* hashchange events queued and not yet dispatched
    origin,         \* history: for every queued event, oldest first, who
                    \* wrote the fragment: "goTo", "init" or "host"
    queueCap,       \* how many events the model lets queue up before the
                    \* event loop must dispatch one; fixed by the initial state
    listening,      \* click handlers and hashchange listener are attached
    initCalled,     \* init() has run
    log,            \* history: what the last step did (calls, renderings)
    validOnly,      \* history: every index passed to goTo and continueChange
                    \* so far was the index of a step the navigator held
    highest         \* history: the largest current since init attached the
                    \* navigator to the document, -1 if there was none;
                    \* followed while validOnly holds, -1 afterwards

vars == << domMarkers, domPanels, navigation, container, buttonsBound, current,
           interceptors, cls, shown, prevDisabled, nextDisabled, hash, pending,
           origin, queueCap, listening, initCalled, log, validOnly, highest >>

-----------------------------------------------------------------------------
(* Bounds of the model *)

MaxSteps == 3
MaxBefore == 2
MaxAfter == 2
MaxPending == 1
MaxQueued == 2
MaxInterleaved == 2
MaxMalformed == 2

-----------------------------------------------------------------------------
(* Values *)

\* JavaScript's undefined where a string is expected, and null where an
\* object is expected
Undefined == << "undefined" >>
Null == [null |-> TRUE]

\* what $.urlParam('gototab') returns when the parameter is absent (null) or
\* empty (0): a falsy value
NoParam == << >>

Letters == << "a", "b", "c", "d", "e", "f" >>

\* the data-plenty-checkout-id of the k-th panel of the document (from 0)
PanelId(k) == << Letters[k + 1] >>

\* an identifier that no panel carries
UnknownId == << "x" >>

\* String(v), as an assignment to location.hash converts its right-hand side
JsString(v) ==
    IF v = Undefined THEN << "u", "n", "d", "e", "f", "i", "n", "e", "d" >>
    ELSE v

\* the strings "next" and "prev"
StrNext == << "n", "e", "x", "t" >>
StrPrev == << "p", "r", "e", "v" >>

\* a replace that is left out: the string as it is
ReplaceHashLeftOut(str) == str

\* str.replace('#', ''): the first '#' is removed
RECURSIVE ReplaceHash(_)
ReplaceHash(str) ==
    IF str = << >> THEN << >>
    ELSE IF Head(str) = "#" THEN Tail(str)
    ELSE << Head(str) >> \o ReplaceHash(Tail(str))

\* $(container[index]).attr('data-plenty-checkout-id')
IdAt(cont, index) ==
    IF index >= 0 /\ index < Len(cont) THEN cont[index + 1] ELSE Undefined

\* what an interceptor returns for a target: "undef" has no return statement,
\* "deny" returns false, "denyC" returns false for the target with id "c" and
\* true for every other one
Kinds == { "undef", "deny", "denyC" }
AfterKinds == { "undef", "deny" }

Call(interceptor, params) ==
    CASE interceptor = "undef" -> "undefined"
      [] interceptor = "deny"  -> "false"
      [] interceptor = "denyC" -> IF params.id = << "c" >> THEN "false" ELSE "true"

-----------------------------------------------------------------------------
(* The state as one record, for the operators that model the functions *)

St == [ navigation |-> navigation, container |-> container,
        buttonsBound |-> buttonsBound, current |-> current,
        cls |-> cls, shown |-> shown,
        prevDisabled |-> prevDisabled, nextDisabled |-> nextDisabled,
        hash |-> hash, pending |-> pending, listening |-> listening,
        log |-> << >>, validOnly |-> validOnly,
        origin |-> origin, writer |-> "goTo" ]

\* window.location.hash = v: the fragment is String(v) without one leading
\* '#'; a hashchange event is queued when the fragment changes (s.writer is
\* who assigns: goTo unless a caller says otherwise)
SetHash(s, v) ==
    LET str == JsString(v)
        frag == IF str # << >> /\ Head(str) = "#" THEN Tail(str) ELSE str
        new == IF frag = << >> THEN << >> ELSE << "#" >> \o frag
    IN IF new = s.hash THEN s
       ELSE [s EXCEPT !.hash = new, !.pending = @ + 1,
                      !.origin = Append(@, s.writer)]

\* a loop over the interceptors that does not stop at a callback returning
\* false (the "return false" of the callback left out)
RECURSIVE EachInterceptorNoBreak(_, _, _)
EachInterceptorNoBreak(identifier, params, i) ==
    LET list == interceptors[identifier]
    IN IF i > Len(list) THEN [calls |-> << >>, continueTabChange |-> TRUE]
       ELSE LET ret == Call(list[i], params)
                call == [ev |-> identifier, i |-> i, target |-> params.index,
                         ret |-> ret]
                rest == EachInterceptorNoBreak(identifier, params, i + 1)
            IN [calls |-> << call >> \o rest.calls,
                continueTabChange |-> ret # "false" /\ rest.continueTabChange]

\* $.each(interceptors[identifier], ...) from position i on: the calls made,
\* and whether the loop ran to its end without a callback returning false
RECURSIVE EachInterceptor(_, _, _)
EachInterceptor(identifier, params, i) ==
    LET list == interceptors[identifier]
    IN IF i > Len(list) THEN [calls |-> << >>, continueTabChange |-> TRUE]
       ELSE LET ret == Call(list[i], params)
                call == [ev |-> identifier, i |-> i, target |-> params.index,
                         ret |-> ret]
            IN IF ret = "false"
               THEN [calls |-> << call >>, continueTabChange |-> FALSE]
               ELSE LET rest == EachInterceptor(identifier, params, i + 1)
                    IN [calls |-> << call >> \o rest.calls,
                        continueTabChange |-> rest.continueTabChange]

ResolveInterceptors(identifier, params) ==
    EachInterceptor(identifier, params, 1)

\* a goTo that removes only 'disabled' from the markers
MarkerClassesKeepActive(old, i, cur) ==
    LET cleared == old \ { "disabled" }
    IN IF i < cur THEN cleared \cup { "visited" }
       ELSE IF i = cur THEN cleared \cup { "active", "visited" }
       ELSE IF i > cur /\ "visited" \notin cleared
            THEN cleared \cup { "disabled" }
            ELSE cleared

\* a goTo that marks only the current marker visited, not the ones below
MarkerClassesCurrentOnly(old, i, cur) ==
    LET cleared == old \ { "disabled", "active" }
    IN IF i = cur THEN cleared \cup { "active", "visited" }
       ELSE IF "visited" \notin cleared
            THEN cleared \cup { "disabled" }
            ELSE cleared

\* a goTo that disables every marker above the current one, visited or not
MarkerClassesDisableAbove(old, i, cur) ==
    LET cleared == old \ { "disabled", "active" }
    IN IF i < cur THEN cleared \cup { "visited" }
       ELSE IF i = cur THEN cleared \cup { "active", "visited" }
       ELSE cleared \cup { "disabled" }

\* the loop over the markers in goTo: the classes of marker i afterwards
MarkerClasses(old, i, cur) ==
    LET cleared == old \ { "disabled", "active" }
    IN IF i < cur THEN cleared \cup { "visited" }
       ELSE IF i = cur THEN cleared \cup { "active", "visited" }
       ELSE IF i > cur /\ "visited" \notin cleared
            THEN cleared \cup { "disabled" }
            ELSE cleared

\* a rendering that disables the previous button only below step 0
RenderPrevBelowZero(s, index, contentChanged) ==
    LET targetContainer == [index |-> index, id |-> IdAt(s.container, index)]
        s1 == [s EXCEPT
                 !.current = index,
                 !.shown = [k \in DOMAIN s.shown |->
                              IF k < Len(s.container) THEN k = index ELSE @[k]],
                 !.cls = [i \in DOMAIN s.cls |->
                            IF i < s.navigation
                            THEN MarkerClasses(@[i], i, index) ELSE @[i]],
                 !.prevDisabled = IF s.buttonsBound THEN index < 0 ELSE @,
                 !.nextDisabled = IF s.buttonsBound
                                  THEN index + 1 = s.navigation ELSE @,
                 !.log = @ \o << [ev |-> "render", i |-> 0, target |-> index,
                                  ret |-> "undefined"] >>]
        s2 == IF index > 0 THEN SetHash(s1, targetContainer.id)
              ELSE IF Len(s1.hash) > 0 THEN SetHash(s1, << >>)
              ELSE s1
    IN IF contentChanged
       THEN [s2 EXCEPT !.log =
                @ \o ResolveInterceptors("afterChange", targetContainer).calls]
       ELSE s2

\* a rendering that always runs the afterChange interceptors
RenderAlwaysAfter(s, index, contentChanged) ==
    LET targetContainer == [index |-> index, id |-> IdAt(s.container, index)]
        s1 == [s EXCEPT
                 !.current = index,
                 !.shown = [k \in DOMAIN s.shown |->
                              IF k < Len(s.container) THEN k = index ELSE @[k]],
                 !.cls = [i \in DOMAIN s.cls |->
                            IF i < s.navigation
                            THEN MarkerClasses(@[i], i, index) ELSE @[i]],
                 !.prevDisabled = IF s.buttonsBound THEN index <= 0 ELSE @,
                 !.nextDisabled = IF s.buttonsBound
                                  THEN index + 1 = s.navigation ELSE @,
                 !.log = @ \o << [ev |-> "render", i |-> 0, target |-> index,
                                  ret |-> "undefined"] >>]
        s2 == IF index > 0 THEN SetHash(s1, targetContainer.id)
              ELSE IF Len(s1.hash) > 0 THEN SetHash(s1, << >>)
              ELSE s1
    IN [s2 EXCEPT !.log =
          @ \o ResolveInterceptors("afterChange", targetContainer).calls]

\* goTo from "current = index" on: the rendering and the afterChange calls
Render(s, index, contentChanged) ==
    LET targetContainer == [index |-> index, id |-> IdAt(s.container, index)]
        s1 == [s EXCEPT
                 !.current = index,
                 !.shown = [k \in DOMAIN s.shown |->
                              IF k < Len(s.container) THEN k = index ELSE @[k]],
                 !.cls = [i \in DOMAIN s.cls |->
                            IF i < s.navigation
                            THEN MarkerClasses(@[i], i, index) ELSE @[i]],
                 !.prevDisabled = IF s.buttonsBound THEN index <= 0 ELSE @,
                 !.nextDisabled = IF s.buttonsBound
                                  THEN index + 1 = s.navigation ELSE @,
                 !.log = @ \o << [ev |-> "render", i |-> 0, target |-> index,
                                  ret |-> "undefined"] >>]
        s2 == IF index > 0 THEN SetHash(s1, targetContainer.id)
              ELSE IF Len(s1.hash) > 0 THEN SetHash(s1, << >>)
              ELSE s1
    IN IF contentChanged
       THEN [s2 EXCEPT !.log =
                @ \o ResolveInterceptors("afterChange", targetContainer).calls]
       ELSE s2

\* a goTo that never asks the before interceptors
GoToUnguarded(s, index, ignoreInterceptors) ==
    Render(s, index, s.current # index)

GoTo(s, index, ignoreInterceptors) ==
    LET targetContainer == [index |-> index, id |-> IdAt(s.container, index)]
        contentChanged == s.current # index
        before == IF contentChanged /\ ~ignoreInterceptors
                  THEN ResolveInterceptors("beforeChange", targetContainer)
                  ELSE [calls |-> << >>, continueTabChange |-> TRUE]
        s0 == [s EXCEPT !.log = @ \o before.calls]
    IN IF ~before.continueTabChange THEN s0
       ELSE Render(s0, index, contentChanged)

\* a continueChange that does not pass ignoreInterceptors
ContinueChangeGuarded(s, targetContainer) ==
    GoTo(s, targetContainer.index, FALSE)

ContinueChange(s, targetContainer) == GoTo(s, targetContainer.index, TRUE)

\* a next() that forces the transition
NextStepForced(s) ==
    IF s.current < s.navigation - 1 THEN GoTo(s, s.current + 1, TRUE) ELSE s

\* a next() that tests current <= navigation.length - 1
NextStepOffByOne(s) ==
    IF s.current <= s.navigation - 1 THEN GoTo(s, s.current + 1, FALSE) ELSE s

\* next()
NextStep(s) ==
    IF s.current < s.navigation - 1 THEN GoTo(s, s.current + 1, FALSE) ELSE s

\* a previous() without its test of current
PreviousUnguarded(s) == GoTo(s, s.current - 1, FALSE)

\* previous()
Previous(s) ==
    IF s.current > 0 THEN GoTo(s, s.current - 1, FALSE) ELSE s

\* $(container).each(...) of goToID from panel i on; "return true" inside the
\* callback only continues the loop
RECURSIVE EachContainer(_, _, _)
EachContainer(s, containerID, i) ==
    IF i >= Len(s.container) THEN s
    ELSE EachContainer(
            IF IdAt(s.container, i) = containerID THEN GoTo(s, i, FALSE) ELSE s,
            containerID, i + 1)

\* goToID: the state afterwards and the value returned
GoToID(s, containerID) ==
    IF containerID = StrNext THEN [state |-> NextStep(s), ret |-> TRUE]
    ELSE IF containerID = StrPrev THEN [state |-> Previous(s), ret |-> TRUE]
    ELSE [state |-> EachContainer(s, ReplaceHash(containerID), 0),
          ret |-> FALSE]

\* a getCurrentContainer that tests current > 0
GetCurrentContainerFromOne ==
    IF current > 0
    THEN [id |-> IdAt(container, current), index |-> current]
    ELSE Null

\* getCurrentContainer()
GetCurrentContainer ==
    IF current >= 0
    THEN [id |-> IdAt(container, current), index |-> current]
    ELSE Null

\* a hashchange listener that does not read the fragment
OnHashChangeFirstStep(s) == GoTo(s, 0, FALSE)

\* a click handler of marker i that does not look at the marker's classes
MarkerClickAnyway(s, i) == GoTo(s, i, FALSE)

\* the click handler init attaches to marker i
MarkerClick(s, i) ==
    IF "disabled" \notin s.cls[i] THEN GoTo(s, i, FALSE) ELSE s

\* a hashchange listener with the test of the fragment's length inverted
OnHashChangeInverted(s) ==
    IF Len(s.hash) = 0 THEN GoToID(s, s.hash).state ELSE GoTo(s, 0, FALSE)

\* the hashchange listener
OnHashChange(s) ==
    IF Len(s.hash) > 0 THEN GoToID(s, s.hash).state ELSE GoTo(s, 0, FALSE)

\* an init that lets the gototab parameter win over a fragment
InitialStepGototabFirst(s, param) ==
    IF param # NoParam /\ \E k \in 0 .. domPanels - 1 : PanelId(k) = param
    THEN SetHash([s EXCEPT !.writer = "init"], param)
    ELSE LET r == GoToID(s, s.hash)
         IN IF ~r.ret /\ r.state.current >= 0
            THEN GoTo(r.state, r.state.current, FALSE)
            ELSE GoTo(r.state, 0, FALSE)

\* $.urlParam('gototab') is param; the branch of init that picks the first step
InitialStep(s, param) ==
    IF Len(s.hash) = 0 /\ param # NoParam
         /\ \E k \in 0 .. domPanels - 1 : PanelId(k) = param
    THEN SetHash([s EXCEPT !.writer = "init"], param)
    ELSE LET r == GoToID(s, s.hash)
         IN IF ~r.ret /\ r.state.current >= 0
            THEN GoTo(r.state, r.state.current, FALSE)
            ELSE GoTo(r.state, 0, FALSE)

\* init()
InitNavigator(s, param) ==
    LET s1 == [s EXCEPT !.navigation = domMarkers,
                        !.container = [k \in 1 .. domPanels |-> PanelId(k - 1)],
                        !.buttonsBound = TRUE]
    IN IF s1.navigation = Len(s1.container) /\ Len(s1.container) > 0
       THEN InitialStep(
              [s1 EXCEPT !.shown = [k \in DOMAIN @ |-> FALSE],
                         !.cls = [i \in DOMAIN @ |-> @[i] \cup { "disabled" }],
                         !.nextDisabled = TRUE,
                         !.prevDisabled = TRUE,
                         !.listening = TRUE],
              param)
       ELSE s1

-----------------------------------------------------------------------------
(* Actions *)

\* the step ends in state r of the navigator and the document
Commit(r) ==
    /\ navigation' = r.navigation
    /\ container' = r.container
    /\ buttonsBound' = r.buttonsBound
    /\ current' = r.current
    /\ cls' = r.cls
    /\ shown' = r.shown
    /\ prevDisabled' = r.prevDisabled
    /\ nextDisabled' = r.nextDisabled
    /\ hash' = r.hash
    /\ pending' = r.pending
    /\ origin' = r.origin
    /\ queueCap' = queueCap
    /\ listening' = r.listening
    /\ log' = r.log
    /\ validOnly' = r.validOnly
    /\ highest' = IF ~r.validOnly THEN -1
                  ELSE IF r.listening /\ r.current > highest THEN r.current
                  ELSE highest
    /\ UNCHANGED << domMarkers, domPanels >>

\* the indices a caller passes to goTo and continueChange: no bounds are
\* validated, so some lie below 0 and one lies above the last panel
IndexArgs == (-2) .. domPanels

\* the identifiers a caller passes to goToID, and the fragments the host sets
IdArgs == { PanelId(k) : k \in 0 .. domPanels - 1 } \cup { UnknownId }

\* a veto of the transition to index was the last thing the last step did
LastVetoed(index) ==
    /\ log # << >>
    /\ log[Len(log)].ev = "beforeChange"
    /\ log[Len(log)].ret = "false"
    /\ log[Len(log)].target = index

\* the last step was an init that wrote the gototab parameter to the fragment
InitWroteHash ==
    /\ Len(log) = 1
    /\ log[1].ev = "init"
    /\ listening
    /\ log[1].hash = << >>
    /\ hash = << "#" >> \o log[1].param

\* the state a step starts from, with the mark of the step as the log
Marked(mark) == [St EXCEPT !.log = << mark >>]

\* the state a call of goTo or continueChange with index starts from
Called(mark, index) ==
    [Marked(mark) EXCEPT
        !.validOnly = @ /\ index >= 0 /\ index < Len(container)]

\* NavigatorService.init(), once per page; param is $.urlParam('gototab')
InitCall(param) ==
    /\ ~initCalled
    /\ pending < queueCap
    /\ Commit(InitNavigator(Marked([ev |-> "init", param |-> param,
                                    hash |-> hash, current |-> current]),
                            param))
    /\ initCalled' = TRUE
    /\ UNCHANGED interceptors

InitAct == \E param \in IdArgs \cup { NoParam } : InitCall(param)

\* NavigatorService.beforeChange(interceptor)
BeforeChange ==
    /\ Len(interceptors.beforeChange) < MaxBefore
    /\ \E interceptor \in Kinds :
          interceptors' = [interceptors EXCEPT
                              !.beforeChange = Append(@, interceptor)]
    /\ Commit(St)
    /\ UNCHANGED initCalled

\* NavigatorService.afterChange(interceptor)
AfterChange ==
    /\ Len(interceptors.afterChange) < MaxAfter
    /\ \E interceptor \in AfterKinds :
          interceptors' = [interceptors EXCEPT
                              !.afterChange = Append(@, interceptor)]
    /\ Commit(St)
    /\ UNCHANGED initCalled

\* NavigatorService.goTo(index, ignoreInterceptors)
GoToCall(index, ignoreInterceptors) ==
    /\ pending < queueCap
    /\ Commit(GoTo(Called([ev |-> "goTo", target |-> index,
                            ignore |-> ignoreInterceptors], index),
                    index, ignoreInterceptors))
    /\ UNCHANGED << interceptors, initCalled >>

GoToAct ==
    \E index \in IndexArgs, ignoreInterceptors \in BOOLEAN :
        GoToCall(index, ignoreInterceptors)

\* NavigatorService.continueChange(targetContainer); the mark records whether
\* the call resumes the transition that the step before saw vetoed
ContinueChangeCall(index) ==
    /\ pending < queueCap
    /\ Commit(ContinueChange(
                Called([ev |-> "continueChange", target |-> index,
                        resumed |-> LastVetoed(index)], index),
                [index |-> index, id |-> IdAt(container, index)]))
    /\ UNCHANGED << interceptors, initCalled >>

ContinueChangeAct == \E index \in IndexArgs : ContinueChangeCall(index)

\* NavigatorService.next()
NextAct ==
    /\ pending < queueCap
    /\ Commit(NextStep(St))
    /\ UNCHANGED << interceptors, initCalled >>

\* NavigatorService.previous()
PreviousAct ==
    /\ pending < queueCap
    /\ Commit(Previous(St))
    /\ UNCHANGED << interceptors, initCalled >>

\* NavigatorService.goToID(containerID), with or without the leading '#'
GoToIDCall(containerID) ==
    /\ pending < queueCap
    /\ Commit(GoToID(St, containerID).state)
    /\ UNCHANGED << interceptors, initCalled >>

GoToIDAct ==
    \E id \in IdArgs \cup { StrNext, StrPrev }, marked \in BOOLEAN :
        GoToIDCall(IF marked THEN << "#" >> \o id ELSE id)

\* a click on marker i: the handler init attached runs goTo(i) unless the
\* marker is disabled
ClickMarkerAt(i) ==
    /\ pending < queueCap
    /\ Commit(IF listening THEN MarkerClick(St, i) ELSE St)
    /\ UNCHANGED << interceptors, initCalled >>

ClickMarker == \E i \in 0 .. domMarkers - 1 : ClickMarkerAt(i)

\* a click on the next button: a disabled button dispatches no click
ClickNext ==
    /\ pending < queueCap
    /\ Commit(IF listening /\ ~nextDisabled THEN NextStep(St) ELSE St)
    /\ UNCHANGED << interceptors, initCalled >>

\* a click on the previous button
ClickPrev ==
    /\ pending < queueCap
    /\ Commit(IF listening /\ ~prevDisabled THEN Previous(St) ELSE St)
    /\ UNCHANGED << interceptors, initCalled >>

\* the host changes the fragment (manual edit, back/forward, a link)
HostSetHash ==
    /\ pending < queueCap
    /\ \E frag \in IdArgs \cup { << >> } :
          Commit(SetHash([St EXCEPT !.writer = "host"], frag))
    /\ UNCHANGED << interceptors, initCalled >>

\* the event loop dispatches one queued hashchange event; the listener reads
\* the hash of that moment.  The mark records whether the event is the one
\* that init's write of the gototab parameter queued.
HashChange ==
    /\ pending > 0
    /\ LET s == [Marked([ev |-> "hashchange", hash |-> hash,
                         gototab |-> InitWroteHash])
                   EXCEPT !.pending = @ - 1, !.origin = Tail(@)]
       IN Commit(IF listening THEN OnHashChange(s) ELSE s)
    /\ UNCHANGED << interceptors, initCalled >>

Next ==
    \/ InitAct
    \/ BeforeChange
    \/ AfterChange
    \/ GoToAct
    \/ ContinueChangeAct
    \/ NextAct
    \/ PreviousAct
    \/ GoToIDAct
    \/ ClickMarker
    \/ ClickNext
    \/ ClickPrev
    \/ HostSetHash
    \/ HashChange

\* the page before any script has run: markers without state classes, panels
\* visible, buttons enabled, the fragment the page was loaded with
InitDocument(markers, panels) ==
    /\ domMarkers = markers
    /\ domPanels = panels
    /\ navigation = 0
    /\ container = << >>
    /\ buttonsBound = FALSE
    /\ current = -1
    /\ interceptors = [beforeChange |-> << >>, afterChange |-> << >>]
    /\ cls = [i \in 0 .. markers - 1 |-> { }]
    /\ shown = [k \in 0 .. panels - 1 |-> TRUE]
    /\ prevDisabled = FALSE
    /\ nextDisabled = FALSE
    /\ hash \in { << >> } \cup
                { << "#" >> \o f :
                    f \in { PanelId(k) : k \in 0 .. panels - 1 } \cup { UnknownId } }
    /\ pending = 0
    /\ origin = << >>
    /\ listening = FALSE
    /\ initCalled = FALSE
    /\ log = << >>
    /\ validOnly = TRUE
    /\ highest = -1

\* a document with as many markers as panels, and at least one
Init ==
    /\ \E n \in 1 .. MaxSteps : InitDocument(n, n)
    /\ queueCap = MaxPending

Spec == Init /\ [][Next]_vars

\* a document init refuses: marker and panel counts differ, or there is no step
InitMalformed ==
    \E m \in 0 .. MaxMalformed, p \in 0 .. MaxMalformed :
        /\ m # p \/ m = 0
        /\ InitDocument(m, p)
        /\ queueCap = MaxPending

SpecMalformed == InitMalformed /\ [][Next]_vars

\* a page that is driven through the markers and the two buttons only: after
\* init (and the registration of interceptors) nothing calls the public
\* functions and the host does not change the fragment
NextControls ==
    \/ InitAct
    \/ BeforeChange
    \/ AfterChange
    \/ ClickMarker
    \/ ClickNext
    \/ ClickPrev
    \/ HashChange

SpecControls == Init /\ [][NextControls]_vars

\* a well-formed document of at most MaxInterleaved steps whose script and
\* user act while up to MaxQueued events are queued:
\* a script's calls run to their end before the event loop dispatches the
\* hashchange events they queued
InitInterleaved ==
    /\ \E n \in 1 .. MaxInterleaved : InitDocument(n, n)
    /\ queueCap = MaxQueued

SpecInterleaved == InitInterleaved /\ [][Next]_vars

-----------------------------------------------------------------------------
(* Vocabulary of the properties *)

BeforeCalls(l) == SelectSeq(l, LAMBDA e : e.ev = "beforeChange")
AfterCalls(l) == SelectSeq(l, LAMBDA e : e.ev = "afterChange")
Rendered(l) == \E n \in 1 .. Len(l) : l[n].ev = "render"

\* the positions of the before interceptors that return false for the
\* transition to index, the panels being cont
VetoersOf(index, cont) ==
    { k \in 1 .. Len(interceptors.beforeChange) :
        Call(interceptors.beforeChange[k],
             [index |-> index, id |-> IdAt(cont, index)]) = "false" }

Vetoed(index) == VetoersOf(index, container) # { }

FirstVetoer(index) ==
    CHOOSE k \in VetoersOf(index, container) :
        \A other \in VetoersOf(index, container) : k <= other

\* the call of the k-th interceptor of a list for the transition to index
CallOf(identifier, k, index, cont) ==
    [ev |-> identifier, i |-> k, target |-> index,
     ret |-> Call(interceptors[identifier][k],
                  [index |-> index, id |-> IdAt(cont, index)])]

\* the index of the panel of the document whose id is id, or -1
IndexOfId(id) ==
    IF \E k \in 0 .. domPanels - 1 : PanelId(k) = id
    THEN CHOOSE k \in 0 .. domPanels - 1 : PanelId(k) = id
    ELSE -1

\* the index of the panel that the fragment h ("" or "#...") names, or -1
IndexOfHash(h) == IF h = << >> THEN -1 ELSE IndexOfId(Tail(h))

\* no before interceptor stops the transition from index from to index to,
\* the panels being cont
Passes(from, to, cont) == from = to \/ VetoersOf(to, cont) = { }

\* some call of the step returned false to a before interceptor loop
SomeVeto(l) ==
    \E n \in 1 .. Len(l) : l[n].ev = "beforeChange" /\ l[n].ret = "false"

\* the page shows step i of a navigator that init has set up: it is the
\* only active marker and the only visible panel, and the buttons fit
ShowsStep(i, c, sh, pd, nd) ==
    /\ \A m \in 0 .. domMarkers - 1 : ("active" \in c[m]) <=> (m = i)
    /\ \A k \in 0 .. domPanels - 1 : sh[k] <=> (k = i)
    /\ pd <=> (i = 0)
    /\ nd <=> (i = domMarkers - 1)

\* the page as init leaves it before any step is shown
ShowsNoStep(c, sh, pd, nd) ==
    /\ \A m \in 0 .. domMarkers - 1 : c[m] = { "disabled" }
    /\ \A k \in 0 .. domPanels - 1 : ~sh[k]
    /\ pd /\ nd

\* what the page shows: marker classes, panel visibility, the two buttons and
\* the fragment
visual == << cls, shown, prevDisabled, nextDisabled, hash, pending >>

-----------------------------------------------------------------------------
\* the step is a call of the public function named ev: its mark
Step(l, ev) == l # << >> /\ l[1].ev = ev

(* C1: whenever goTo(j) is called with j # current and without
   ignoreInterceptors, and some before interceptor returns false for the
   target, the before interceptors are called in registration order up to and
   including the first one that returns false and no further one, no after
   interceptor is called, and current, the marker classes, the panel
   visibility, the disabled flags of both buttons and the fragment are what
   they were. *)
C1_VetoAborts ==
    [][(/\ Step(log', "goTo")
        /\ ~log'[1].ignore
        /\ log'[1].target # current
        /\ Vetoed(log'[1].target)) =>
          /\ Tail(log') = [k \in 1 .. FirstVetoer(log'[1].target) |->
                             CallOf("beforeChange", k, log'[1].target,
                                    container)]
          /\ UNCHANGED << current, visual >>]_vars

\* goTo to a panel was vetoed by the first of two before interceptors, with
\* an after interceptor registered, after init
C1_Witness ==
    /\ listening
    /\ Len(interceptors.beforeChange) = 2
    /\ Len(interceptors.afterChange) > 0
    /\ Step(log, "goTo")
    /\ Len(log) = 2
    /\ log[2].ev = "beforeChange"
    /\ log[2].i = 1
    /\ log[2].ret = "false"
    /\ log[2].target # current
    /\ log[2].target \in 0 .. domPanels - 1

(* C2: a continueChange(t) calls no before interceptor and ends with
   current = t.index, whatever before interceptors are registered; in
   particular when it resumes a transition to t that was just vetoed. *)
C2_ContinueChangeSucceeds ==
    [][Step(log', "continueChange") =>
          /\ current' = log'[1].target
          /\ BeforeCalls(log') = << >>]_vars

\* continueChange has resumed a vetoed transition that the registered
\* interceptors still veto
C2_Witness ==
    /\ Step(log, "continueChange")
    /\ log[1].resumed
    /\ current = log[1].target
    /\ Rendered(log)
    /\ Vetoed(current)

(* C3: on every step that changes current, every registered after interceptor
   is called exactly once, in registration order, with the target step,
   whatever the after interceptors return. *)
C3_AllAfterInterceptorsRun ==
    [][current' # current =>
         AfterCalls(log') =
            [k \in 1 .. Len(interceptors.afterChange) |->
               CallOf("afterChange", k, current', container')]]_vars

(* C4: after every step in which goTo has rendered a valid index i (0 <= i <
   number of steps), exactly the marker at i is active, every marker below i
   is visited, and every marker above i that was not visited before the step
   is disabled. *)
C4_MarkersAfterTransition ==
    [][(Rendered(log') /\ current' >= 0 /\ current' < navigation') =>
         \A m \in 0 .. navigation' - 1 :
            /\ ("active" \in cls'[m]) <=> (m = current')
            /\ m < current' => "visited" \in cls'[m]
            /\ (m > current' /\ "visited" \notin cls[m]) =>
                  "disabled" \in cls'[m]]_vars

\* back at step 0 of three after having been at step 1: marker 1 stays
\* visited, marker 2 is disabled
C4_Witness ==
    /\ domMarkers = 3
    /\ Rendered(log)
    /\ current = 0
    /\ "active" \in cls[0]
    /\ "visited" \in cls[1]
    /\ "disabled" \in cls[2]

(* C5 as stated: every goTo(i) to a valid index i is followed by
   getCurrentContainer() = {id: id of panel i, index: i}, and
   getCurrentContainer() is null exactly when current = -1. *)
C5_Original ==
    [][/\ (Step(log', "goTo") /\ log'[1].target \in 0 .. Len(container) - 1) =>
             GetCurrentContainer' = [id |-> PanelId(log'[1].target),
                                     index |-> log'[1].target]
       /\ (GetCurrentContainer' = Null) <=> (current' = -1)]_vars

(* C5 as amended: every goTo(i) to a valid index i that no before interceptor
   vetoes (ignoreInterceptors is set, or i = current, or no registered before
   interceptor returns false for the target) is followed by
   getCurrentContainer() = {id: id of panel i, index: i}, and
   getCurrentContainer() is null exactly when current < 0. *)
C5_GoToThenCurrentContainer ==
    [][/\ (/\ Step(log', "goTo")
           /\ log'[1].target \in 0 .. Len(container) - 1
           /\ \/ log'[1].ignore
              \/ log'[1].target = current
              \/ ~Vetoed(log'[1].target)) =>
             GetCurrentContainer' = [id |-> PanelId(log'[1].target),
                                     index |-> log'[1].target]
       /\ (GetCurrentContainer' = Null) <=> (current' < 0)]_vars

\* goTo(2) has passed two before interceptors and getCurrentContainer()
\* returns panel "c"
C5_Witness ==
    /\ Step(log, "goTo")
    /\ ~log[1].ignore
    /\ log[1].target = 2
    /\ Len(BeforeCalls(log)) = 2
    /\ GetCurrentContainer = [id |-> << "c" >>, index |-> 2]

(* C6: once init has run on a document whose marker and panel counts differ
   or that has no step, with current = -1, every later step (goTo and
   continueChange with an index >= 0) leaves current at -1, leaves marker classes, panel visibility and both buttons as they are,
   calls no interceptor, and getCurrentContainer() stays null. *)
C6_MalformedStaysInert ==
    [][(/\ initCalled /\ ~listening /\ current = -1
        /\ (Step(log', "goTo") \/ Step(log', "continueChange")) =>
              log'[1].target >= 0) =>
          /\ current' = -1
          /\ UNCHANGED << cls, shown, prevDisabled, nextDisabled >>
          /\ BeforeCalls(log') = << >>
          /\ AfterCalls(log') = << >>
          /\ GetCurrentContainer' = Null]_vars

(* C7 as stated: the step init goes for is the gototab parameter's step when
   the parameter matches a panel, else the fragment's step when it matches,
   else current when >= 0, else step 0: after init the navigator is at that
   step, or has written it to the fragment for the location-change event to
   take, or a before interceptor has vetoed.  In particular, with gototab
   matching p and the fragment matching another step f, that step is p. *)
C7_Original ==
    [][Step(log', "init") =>
         LET p == IndexOfId(log'[1].param)
             f == IndexOfHash(log'[1].hash)
             c == log'[1].current
             target == IF p >= 0 THEN p ELSE IF f >= 0 THEN f
                       ELSE IF c >= 0 THEN c ELSE 0
         IN \/ current' = target
            \/ hash' = << "#" >> \o PanelId(target) /\ pending' > pending
            \/ SomeVeto(log')]_vars

(* C7 as amended: init picks (1) the fragment's step f when the fragment
   matches a panel; else (2) the gototab parameter's step when the fragment
   is empty and the parameter matches a panel, and then it only writes the
   parameter to the fragment, leaving current as it is; else (3) current
   when it is >= 0; else (4) step 0.  A step different from current is taken
   only if no before interceptor returns false for it; when f is vetoed init
   goes on with (3) and (4).  In particular, with gototab matching p and the
   fragment matching another step f that is not vetoed, init ends at f. *)
C7_InitPriority ==
    [][Step(log', "init") =>
         LET p == IndexOfId(log'[1].param)
             f == IndexOfHash(log'[1].hash)
             c == log'[1].current
         IN IF f >= 0 /\ Passes(c, f, container')
            THEN current' = f /\ Rendered(log')
            ELSE IF log'[1].hash = << >> /\ p >= 0
            THEN /\ current' = c
                 /\ hash' = << "#" >> \o log'[1].param
                 /\ pending' = pending + 1
                 /\ Len(log') = 1
            ELSE IF c >= 0 THEN current' = c /\ Rendered(log')
            ELSE IF Passes(c, 0, container')
            THEN current' = 0 /\ Rendered(log')
            ELSE current' = c /\ ~Rendered(log')]_vars

\* init ran with gototab naming one step and the fragment another, and the
\* navigator is at the fragment's step
C7_Witness ==
    /\ Step(log, "init")
    /\ IndexOfId(log[1].param) >= 0
    /\ IndexOfHash(log[1].hash) >= 0
    /\ IndexOfId(log[1].param) # IndexOfHash(log[1].hash)
    /\ current = IndexOfHash(log[1].hash)
    /\ Rendered(log)

(* C8 as stated: when the location-change event that init's write of a
   matching gototab = p (fragment empty) has queued is processed, the
   navigator is at the step of p; for [a,b,c] and gototab = b that is step 1
   with fragment b and both buttons enabled. *)
C8_Original ==
    [][(Step(log', "hashchange") /\ log'[1].gototab) =>
         /\ current' = IndexOfHash(hash)
         /\ (domPanels = 3 /\ hash = << "#", "b" >>) =>
               /\ hash' = << "#", "b" >>
               /\ ~prevDisabled' /\ ~nextDisabled']_vars

(* C8 as amended: init with a matching gototab = p and an empty fragment
   itself shows no step: it leaves current as it is and writes p to the
   fragment, which queues a location-change event.  When that event is
   processed next, and no before interceptor returns false for the step of p
   (or current is that step already), the navigator shows the step of p:
   current is its index, the fragment is p for an index > 0 and empty for
   index 0, previous is disabled iff the index is 0 and next iff it is the
   last; for [a,b,c] and gototab = b that is step 1 with fragment b and both
   buttons enabled. *)
C8_GototabThenEvent ==
    [][/\ (/\ Step(log', "init")
           /\ log'[1].hash = << >>
           /\ IndexOfId(log'[1].param) >= 0) =>
             /\ current' = current
             /\ hash' = << "#" >> \o log'[1].param
             /\ pending' = pending + 1
             /\ ShowsNoStep(cls', shown', prevDisabled', nextDisabled')
       /\ (/\ Step(log', "hashchange")
           /\ log'[1].gototab
           /\ Passes(current, IndexOfHash(hash), container)) =>
             /\ current' = IndexOfHash(hash)
             /\ hash' = IF current' > 0 THEN hash ELSE << >>
             /\ ShowsStep(current', cls', shown', prevDisabled',
                          nextDisabled')]_vars

\* [a,b,c], gototab = b: the event of init's write has been processed, with a
\* before interceptor registered
C8_Witness ==
    /\ Step(log, "hashchange")
    /\ log[1].gototab
    /\ domPanels = 3
    /\ current = 1
    /\ hash = << "#", "b" >>
    /\ ~prevDisabled /\ ~nextDisabled
    /\ Len(BeforeCalls(log)) > 0

(* C9 as stated: init on a well-formed document with no gototab parameter
   and an empty fragment, from current = -1, ends at step 0 whatever
   interceptors are registered; with one step both buttons are disabled. *)
C9_Original ==
    [][(/\ Step(log', "init")
        /\ log'[1].hash = << >>
        /\ log'[1].param = NoParam
        /\ log'[1].current = -1) =>
          /\ current' = 0
          /\ domMarkers = 1 => (prevDisabled' /\ nextDisabled')]_vars

(* C9 as amended: init on a well-formed document with no gototab parameter
   and an empty fragment, from current = -1, ends at step 0 (step 0 shown,
   previous disabled, next disabled iff there is one step) if no registered
   before interceptor returns false for step 0; otherwise current stays -1,
   every marker is disabled, no panel is shown and both buttons are
   disabled. *)
C9_InitToFirstStep ==
    [][(/\ Step(log', "init")
        /\ log'[1].hash = << >>
        /\ log'[1].param = NoParam
        /\ log'[1].current = -1) =>
          IF VetoersOf(0, container') = { }
          THEN /\ current' = 0
               /\ ShowsStep(0, cls', shown', prevDisabled', nextDisabled')
               /\ domMarkers = 1 => (prevDisabled' /\ nextDisabled')
          ELSE /\ current' = -1
               /\ ShowsNoStep(cls', shown', prevDisabled', nextDisabled')]_vars

\* init of a one-step navigator has passed a before interceptor and shows
\* step 0 with both buttons disabled
C9_Witness ==
    /\ Step(log, "init")
    /\ log[1].hash = << >>
    /\ log[1].param = NoParam
    /\ log[1].current = -1
    /\ Len(BeforeCalls(log)) > 0
    /\ domMarkers = 1
    /\ current = 0
    /\ prevDisabled /\ nextDisabled

(* C10: after init, while a before interceptor that returns false for the
   target with id c is registered and current is not the index of c, no step
   other than goTo with ignoreInterceptors and continueChange (that is: next,
   previous, goTo without ignoreInterceptors, goToID, the clicks, a fragment
   change and the processing of a location-change event) makes the index of c
   current or marks the marker of c active. *)
C10_VetoedStepNeverActive ==
    [][(/\ listening
        /\ domPanels > 2
        /\ \E k \in 1 .. Len(interceptors.beforeChange) :
              interceptors.beforeChange[k] = "denyC"
        /\ current # IndexOfId(<< "c" >>)
        /\ ~Step(log', "continueChange")
        /\ ~(Step(log', "goTo") /\ log'[1].ignore)) =>
          /\ current' # IndexOfId(<< "c" >>)
          /\ "active" \notin cls'[IndexOfId(<< "c" >>)]]_vars

\* at step 1 of [a,b,c], next() has just been vetoed on its way to c
C10_Witness ==
    /\ listening
    /\ domPanels = 3
    /\ current = 1
    /\ "active" \in cls[1]
    /\ log # << >>
    /\ log[1].ev = "beforeChange"
    /\ log[Len(log)].ev = "beforeChange"
    /\ log[Len(log)].ret = "false"
    /\ log[Len(log)].target = 2
    /\ interceptors.beforeChange[Len(log)] = "denyC"

(* C11: a marker that is visited stays visited and is not disabled after any
   step, whatever the step is: a transition to a lower index, a rendering of
   the current index again, a veto, an event. *)
C11_VisitedStays ==
    [][\A m \in 0 .. domMarkers - 1 :
          "visited" \in cls[m] =>
             "visited" \in cls'[m] /\ "disabled" \notin cls'[m]]_vars

\* goTo(0) at step 0 of three has rendered again after step 2 had been
\* visited: marker 2 is still visited and not disabled
C11_Witness ==
    /\ domMarkers = 3
    /\ Step(log, "goTo")
    /\ log[1].target = 0
    /\ Len(log) = 2
    /\ log[2].ev = "render"
    /\ current = 0
    /\ "visited" \in cls[2]
    /\ "disabled" \notin cls[2]

(* C12 as stated: in every state with current = i, 0 <= i < number of steps,
   goTo(i) calls no before and no after interceptor and leaves current, the
   marker classes, the panel visibility and both buttons as they are. *)
C12_Original ==
    [][(/\ Step(log', "goTo")
        /\ log'[1].target = current
        /\ current >= 0 /\ current < navigation) =>
          /\ BeforeCalls(log') = << >>
          /\ AfterCalls(log') = << >>
          /\ UNCHANGED << current, cls, shown, prevDisabled,
                          nextDisabled >>]_vars

(* C12 as amended: in every state with current = i, 0 <= i < number of
   steps, that the navigator has come to with goTo and continueChange only
   called with indices of steps it held (so not before init),
   goTo(i) calls no before and no after interceptor and leaves current, the
   marker classes, the panel visibility and both buttons as they are. *)
C12_GoToCurrentIdempotent ==
    [][(/\ Step(log', "goTo")
        /\ log'[1].target = current
        /\ current >= 0 /\ current < navigation
        /\ validOnly) =>
          /\ BeforeCalls(log') = << >>
          /\ AfterCalls(log') = << >>
          /\ UNCHANGED << current, cls, shown, prevDisabled,
                          nextDisabled >>]_vars

\* goTo(1) at step 1 of three, with interceptors of both kinds registered
\* that would veto: nothing but the rendering happened
C12_Witness ==
    /\ domMarkers = 3
    /\ validOnly
    /\ Step(log, "goTo")
    /\ ~log[1].ignore
    /\ log[1].target = 1
    /\ current = 1
    /\ Len(log) = 2
    /\ log[2].ev = "render"
    /\ Vetoed(1)
    /\ Len(interceptors.afterChange) > 0
    /\ "visited" \in cls[2]

(* C13: in every state with current at the last step index, next() changes
   nothing and calls no interceptor, and in every state with current = 0,
   previous() changes nothing and calls no interceptor. *)
C13_NextPreviousAtEnds ==
    /\ current = navigation - 1 => NextStep(St) = St
    /\ current = 0 => Previous(St) = St

\* at the last of three steps, with a before and an after interceptor
\* registered, and at step 0 likewise
C13_Witness ==
    /\ listening
    /\ domMarkers = 3
    /\ current = 2
    /\ NextStep(St) = St
    /\ Previous(St) # St
    /\ Len(interceptors.beforeChange) > 0
    /\ Len(interceptors.afterChange) > 0

(* C14: in every state, goToID("next") does what next() does and
   goToID("prev") what previous() does; for every panel k the navigator
   holds, goToID of its id, with or without a leading '#', does what goTo(k)
   does; and goToID of an id that no panel of the navigator carries does
   nothing.  "Does" is the state afterwards together with the interceptor
   calls made. *)
C14_GoToIDDispatches ==
    /\ GoToID(St, StrNext).state = NextStep(St)
    /\ GoToID(St, StrPrev).state = Previous(St)
    /\ \A k \in 0 .. Len(container) - 1 :
          /\ GoToID(St, IdAt(container, k)).state = GoTo(St, k, FALSE)
          /\ GoToID(St, << "#" >> \o IdAt(container, k)).state
                = GoTo(St, k, FALSE)
    /\ \A id \in IdArgs :
          (\A k \in 0 .. Len(container) - 1 : IdAt(container, k) # id) =>
             /\ GoToID(St, id).state = St
             /\ GoToID(St, << "#" >> \o id).state = St

\* at step 0 of three, goToID("#c") goes to step 2 past a before interceptor
\* and calls an after interceptor
C14_Witness ==
    /\ listening
    /\ domPanels = 3
    /\ current = 0
    /\ GoToID(St, << "#", "c" >>).state.current = 2
    /\ Len(BeforeCalls(GoToID(St, << "#", "c" >>).state.log)) > 0
    /\ Len(AfterCalls(GoToID(St, << "#", "c" >>).state.log)) > 0

(* C15 as stated: in every state after init with current >= 0, the previous
   button is disabled iff current <= 0 and the next button iff current is
   the last index; in every state after init with current = -1 both buttons
   are disabled. *)
C15_Original ==
    listening =>
       /\ current >= 0 =>
             /\ prevDisabled <=> (current <= 0)
             /\ nextDisabled <=> (current = navigation - 1)
       /\ current = -1 => (prevDisabled /\ nextDisabled)

(* C15 as amended: the same, in every state after init that was reached with
   goTo and continueChange only called with indices of steps the navigator
   held at the call (not before init, and not with an index out of range). *)
C15_ButtonsFollowCurrent ==
    (listening /\ validOnly) =>
       /\ current >= 0 =>
             /\ prevDisabled <=> (current <= 0)
             /\ nextDisabled <=> (current = navigation - 1)
       /\ current = -1 => (prevDisabled /\ nextDisabled)

\* the middle step of three is shown after a transition: both buttons are
\* enabled
C15_Witness ==
    /\ listening
    /\ validOnly
    /\ domMarkers = 3
    /\ current = 1
    /\ Rendered(log)
    /\ ~prevDisabled
    /\ ~nextDisabled

(* C16: in every state after init in which no hashchange event is queued and
   current is the index of a step, the fragment is empty if current = 0 and
   is the id of the current panel if current > 0; also after the host has
   set the fragment to an id that is vetoed or that no panel carries.  (Only
   states reached with valid indices are looked at.) *)
C16_FragmentReflectsStep ==
    (/\ listening
     /\ validOnly
     /\ pending = 0
     /\ current >= 0 /\ current < navigation) =>
        hash = IF current = 0 THEN << >>
               ELSE << "#" >> \o IdAt(container, current)

\* every queued hashchange event comes from a write of the fragment by goTo,
\* and there is one
OwnEventsOnly ==
    /\ origin # << >>
    /\ \A k \in 1 .. Len(origin) : origin[k] = "goTo"

(* C17 as stated: when the listener processes a hashchange event that a write
   of goTo queued, and between that write and the processing only operations
   of the navigator ran (no write of the fragment by the host or by init
   followed, so every queued event is goTo's), current does not change, no
   before and no after interceptor is called, the fragment is not written
   and the queue is one event shorter. *)
C17_Original ==
    [][(Step(log', "hashchange") /\ listening /\ OwnEventsOnly) =>
          /\ current' = current
          /\ BeforeCalls(log') = << >>
          /\ AfterCalls(log') = << >>
          /\ hash' = hash
          /\ pending' = pending - 1]_vars

(* C17 as amended: the same for the runs in which goTo and continueChange
   were only called with indices of steps the navigator held at the call;
   a goTo(-1) clears the fragment and the event of that write makes the
   listener call goTo(0). *)
C17_OwnEventsChangeNothing ==
    [][(/\ Step(log', "hashchange")
        /\ listening
        /\ OwnEventsOnly
        /\ validOnly) =>
          /\ current' = current
          /\ BeforeCalls(log') = << >>
          /\ AfterCalls(log') = << >>
          /\ hash' = hash
          /\ pending' = pending - 1]_vars

\* two transitions ran before the event of the first was processed: the
\* listener read the fragment of the second, found it current and did
\* nothing but render, and the second event is still queued
C17_Witness ==
    /\ queueCap = MaxQueued
    /\ domMarkers = 2
    /\ listening
    /\ validOnly
    /\ Step(log, "hashchange")
    /\ Len(log) = 2
    /\ log[2].ev = "render"
    /\ origin = << "goTo" >>
    /\ current = 0
    /\ hash = << >>
    /\ "visited" \in cls[1]
    /\ Vetoed(0)

\* the markers of the document that carry class c
MarkersWith(c) == { i \in 0 .. domMarkers - 1 : c \in cls[i] }

(* C18: in every state after init that was reached with goTo and
   continueChange only called with indices of steps the navigator held (so
   with all operations after init), the visited markers are those from 0 to
   the largest index current has had (none if it had none), no marker is
   visited and disabled, and whenever current >= 0 the disabled markers are
   those above that largest index. *)
C18_VisitedPrefix ==
    (listening /\ validOnly) =>
       /\ MarkersWith("visited") = 0 .. highest
       /\ MarkersWith("visited") \cap MarkersWith("disabled") = { }
       /\ current >= 0 => MarkersWith("disabled") = highest + 1 .. domMarkers - 1

\* back at step 0 of three after step 1 was the highest: markers 0 and 1
\* are visited and marker 2 is the only disabled one
C18_Witness ==
    /\ listening
    /\ validOnly
    /\ domMarkers = 3
    /\ current = 0
    /\ highest = 1
    /\ Rendered(log)
    /\ MarkersWith("visited") = { 0, 1 }
    /\ MarkersWith("disabled") = { 2 }

\* c is -1 or the index of one of n steps
InRange(c, n) == c >= -1 /\ c < n

(* C20: after init, from a state with current = -1 or the index of a step,
   every step leaves current at -1 or at the index of a step, except a goTo
   or continueChange called with an index that is not the index of a step
   (next, previous, goToID, the clicks and the hashchange events never take
   it out); and an init that starts from current = -1 ends with current at
   -1 or at the index of a step. *)
C20_CurrentStaysInRange ==
    [][/\ (listening /\ InRange(current, navigation)) =>
             \/ InRange(current', navigation')
             \/ /\ Step(log', "goTo") \/ Step(log', "continueChange")
                /\ ~(log'[1].target >= 0 /\ log'[1].target < navigation)
       /\ (Step(log', "init") /\ current = -1) =>
             InRange(current', navigation')]_vars

\* a hashchange event has taken the navigator to the last of three steps
\* past a before interceptor
C20_Witness ==
    /\ listening
    /\ validOnly
    /\ domMarkers = 3
    /\ Step(log, "hashchange")
    /\ Rendered(log)
    /\ Len(BeforeCalls(log)) > 0
    /\ current = 2

(* C19: on a page driven only by clicks on the markers and on the two
   buttons, after init: a click on a disabled marker changes nothing and
   calls no interceptor; and a step j > 0 that has not been visited becomes
   current only from step j - 1 (the hashchange event of init's write of the
   gototab parameter, which is a change of the fragment, is not such a
   step). *)
C19_NoSkipping ==
    [][listening =>
         /\ \A i \in 0 .. domMarkers - 1 :
               "disabled" \in cls[i] => MarkerClick(St, i) = St
         /\ (/\ ~(Step(log', "hashchange") /\ Head(origin) = "init")
             /\ current' # current
             /\ current' > 0
             /\ "visited" \notin cls[current']) =>
               current = current' - 1]_vars

\* step 1 of three has become current for the first time, from step 0 past a
\* before interceptor; marker 2 is disabled and a click on it does nothing
C19_Witness ==
    /\ listening
    /\ domMarkers = 3
    /\ current = 1
    /\ highest = 1
    /\ log # << >>
    /\ log[1].ev = "beforeChange"
    /\ log[1].target = 1
    /\ Rendered(log)
    /\ "disabled" \in cls[2]
    /\ MarkerClick(St, 2) = St

=============================================================================
